---- MODULE Spec2Model ----
(***************************************************************************)
(* Model of pyspur's structured-output path and crawl poller:              *)
(*   - repair_json and SingleLLMCallNode.run                               *)
(*       (backend/pyspur/nodes/llm/single_llm_call.py)                     *)
(*   - json_schema_to_model and friends (backend/app/utils/pydantic_utils) *)
(*   - FirecrawlCrawlNode.run                                              *)
(*       (backend/app/nodes/integrations/firecrawl/firecrawl_crawl.py)     *)
(*                                                                         *)
(* Text is a sequence of one-character strings.  The symbol "P" stands for *)
(* the eleven letters PLACEHOLDER (the marker repair_json uses); it is a   *)
(* word character and no other letter of the alphabet occurs in it.        *)
(***************************************************************************)
EXTENDS Integers, Sequences, FiniteSets, TLC

VARIABLES
    pc,                 \* position of the running coroutine / call
    broken_json_str,    \* repair_json: argument of the first call
    restored,           \* repair_json: text after the placeholders are restored
    repaired1,          \* repair_json(broken_json_str)
    repaired2,          \* repair_json(repair_json(broken_json_str))
    output_json_schema, \* SingleLLMCallNode: config.output_json_schema
    model_name,         \* SingleLLMCallNode.run: model_name
    error_str,          \* SingleLLMCallNode.run: str(e) of the generate_text failure
    assistant_message_str,  \* SingleLLMCallNode.run: text returned by generate_text
    repaired_str,       \* SingleLLMCallNode.run: repair_json(assistant_message_str)
    assistant_message_dict, \* SingleLLMCallNode.run: decoded value
    loads_calls,        \* number of json.loads calls made by run
    repair_calls,       \* number of repair_json calls made by run
    trace,              \* calls made by run, in order
    raised,             \* exception leaving run (or raised inside the crawl try block)
    returned,           \* value run returns
    crawl_id,           \* FirecrawlCrawlNode.run: crawl_obj.get("id")
    attempt,            \* FirecrawlCrawlNode.run: loop variable of the polling loop
    polls,              \* number of check_crawl_status calls
    sleeps,             \* delays passed to asyncio.sleep, in order
    status_response,    \* FirecrawlCrawlNode.run: last check_crawl_status response
    logged              \* messages passed to logging.error

vars == <<pc, broken_json_str, restored, repaired1, repaired2, output_json_schema,
          model_name, error_str, assistant_message_str, repaired_str,
          assistant_message_dict, loads_calls, repair_calls, trace, raised, returned,
          crawl_id, attempt, polls, sleeps, status_response, logged>>

repairVars == <<broken_json_str, restored, repaired1, repaired2>>
llmVars == <<output_json_schema, model_name, error_str, assistant_message_str,
             repaired_str, assistant_message_dict, loads_calls, repair_calls, trace>>
crawlVars == <<crawl_id, attempt, polls, sleeps, status_response, logged>>

\* Python's None where a record is expected, and where a text is expected
None == [t |-> "none"]
NoText == <<"None">>

(***************************************************************************)
(* Text                                                                    *)
(***************************************************************************)
DQ == "\""
SQ == "'"
BS == "\\"

\* the characters texts are drawn from
Alphabet == {"{", "}", "[", "]", DQ, SQ, ",", ":", " ", "x", "5", "0", BS, "P"}

\* \s of Python's re, on the alphabet
IsSpace(c) == c = " "

\* \w of Python's re, on the alphabet
IsWord(c) == c \in {"x", "5", "0", "1", "2", "3", "4", "6", "7", "8", "9", "P"}

RECURSIVE StringsUpTo(_, _)
StringsUpTo(S, n) ==
    IF n = 0 THEN {<<>>}
    ELSE LET shorter == StringsUpTo(S, n - 1)
         IN shorter \cup {Append(s, c) : s \in {t \in shorter : Len(t) = n - 1}, c \in S}

\* first index j >= i with s[j] not a space, or Len(s)+1
RECURSIVE SkipSpace(_, _)
SkipSpace(s, i) ==
    IF i <= Len(s) /\ IsSpace(s[i]) THEN SkipSpace(s, i + 1) ELSE i

\* first index j >= i with s[j] not a word character, or Len(s)+1
RECURSIVE SkipWord(_, _)
SkipWord(s, i) ==
    IF i <= Len(s) /\ IsWord(s[i]) THEN SkipWord(s, i + 1) ELSE i

\* s[i:] starts with t
StartsWithAt(s, i, t) ==
    /\ i + Len(t) - 1 <= Len(s)
    /\ \A k \in 1..Len(t) : s[i + k - 1] = t[k]

\* str.find(c): first index of character c, 0 when absent
RECURSIVE FindFrom(_, _, _)
FindFrom(s, c, i) ==
    IF i > Len(s) THEN 0 ELSE IF s[i] = c THEN i ELSE FindFrom(s, c, i + 1)

find(s, c) == FindFrom(s, c, 1)

\* str.rfind(c): last index of character c, 0 when absent
RECURSIVE RFindFrom(_, _, _)
RFindFrom(s, c, i) ==
    IF i < 1 THEN 0 ELSE IF s[i] = c THEN i ELSE RFindFrom(s, c, i - 1)

rfind(s, c) == RFindFrom(s, c, Len(s))

\* str.strip() leaves nothing
IsBlank(s) == \A i \in 1..Len(s) : IsSpace(s[i])

\* str.replace(old, new): leftmost non-overlapping occurrences, old non-empty
RECURSIVE ReplaceFrom(_, _, _, _, _)
ReplaceFrom(s, old, new, i, out) ==
    IF i > Len(s) THEN out
    ELSE IF StartsWithAt(s, i, old)
         THEN ReplaceFrom(s, old, new, i + Len(old), out \o new)
         ELSE ReplaceFrom(s, old, new, i + 1, Append(out, s[i]))

replace(s, old, new) == ReplaceFrom(s, old, new, 1, <<>>)

\* str(n) for a natural number n
Digit(d) == <<"0", "1", "2", "3", "4", "5", "6", "7", "8", "9">>[d + 1]

RECURSIVE Str(_)
Str(n) == IF n < 10 THEN <<Digit(n)>> ELSE Append(Str(n \div 10), Digit(n % 10))

(***************************************************************************)
(* repair_json                                                             *)
(***************************************************************************)
placeholder == <<"P">>

\* the regular expression "[^"\\]*(?:\\.[^"\\]*)*" tried with its opening
\* quote at j-1: the index of the closing quote, 0 when it does not match
RECURSIVE QuotedEnd(_, _)
QuotedEnd(s, j) ==
    IF j > Len(s) THEN 0
    ELSE IF s[j] = DQ THEN j
    ELSE IF s[j] = BS THEN (IF j + 1 > Len(s) THEN 0 ELSE QuotedEnd(s, j + 2))
    ELSE QuotedEnd(s, j + 1)

\* re.sub(r'"[^"\\]*(?:\\.[^"\\]*)*"', replace_quoted, repaired):
\* text with every match replaced by its key, and the (key, literal) pairs
\* in the order replace_quoted stored them
RECURSIVE SubQuoted(_, _, _, _)
SubQuoted(s, i, out, quoted) ==
    IF i > Len(s) THEN [text |-> out, quoted_strings |-> quoted]
    ELSE LET e == IF s[i] = DQ THEN QuotedEnd(s, i + 1) ELSE 0
             key == placeholder \o Str(Len(quoted))
         IN IF e # 0
            THEN SubQuoted(s, e + 1, out \o key,
                           Append(quoted, <<key, SubSeq(s, i, e)>>))
            ELSE SubQuoted(s, i + 1, Append(out, s[i]), quoted)

\* repaired.replace("'", '"')
SingleToDouble(s) == replace(s, <<SQ>>, <<DQ>>)

\* for key, value in quoted_strings.items(): repaired = repaired.replace(key, value)
RECURSIVE RestoreQuoted(_, _, _)
RestoreQuoted(s, quoted, k) ==
    IF k > Len(quoted) THEN s
    ELSE RestoreQuoted(replace(s, quoted[k][1], quoted[k][2]), quoted, k + 1)

\* lines 30-51: the text after the placeholders are restored
ProtectedQuoteFix(s) ==
    LET sub == SubQuoted(s, 1, <<>>, <<>>)
    IN RestoreQuoted(SingleToDouble(sub.text), sub.quoted_strings, 1)

\* re.sub(r",\s*([}\]])", r'\1', repaired)
RECURSIVE RemoveTrailingCommas(_, _, _)
RemoveTrailingCommas(s, i, out) ==
    IF i > Len(s) THEN out
    ELSE LET j == SkipSpace(s, i + 1)
         IN IF s[i] = "," /\ j <= Len(s) /\ s[j] \in {"}", "]"}
            THEN RemoveTrailingCommas(s, j + 1, Append(out, s[j]))
            ELSE RemoveTrailingCommas(s, i + 1, Append(out, s[i]))

\* re.sub(r"([}\"])\s*([{\[])", r'\1,\2', repaired)
RECURSIVE AddMissingCommas(_, _, _)
AddMissingCommas(s, i, out) ==
    IF i > Len(s) THEN out
    ELSE LET j == SkipSpace(s, i + 1)
         IN IF s[i] \in {"}", DQ} /\ j <= Len(s) /\ s[j] \in {"{", "["}
            THEN AddMissingCommas(s, j + 1, out \o <<s[i], ",", s[j]>>)
            ELSE AddMissingCommas(s, i + 1, Append(out, s[i]))

\* re.sub(r'([{,]\s*)(\w+)(\s*:)', r'\1"\2"\3', repaired)
RECURSIVE QuoteBareKeys(_, _, _)
QuoteBareKeys(s, i, out) ==
    IF i > Len(s) THEN out
    ELSE LET w == SkipSpace(s, i + 1)      \* start of \w+
             x == SkipWord(s, w)           \* end of \w+ (exclusive)
             c == SkipSpace(s, x)          \* position of the colon
         IN IF s[i] \in {"{", ","} /\ x > w /\ c <= Len(s) /\ s[c] = ":"
            THEN QuoteBareKeys(s, c + 1,
                     out \o SubSeq(s, i, w - 1) \o <<DQ>> \o SubSeq(s, w, x - 1)
                         \o <<DQ>> \o SubSeq(s, x, c))
            ELSE QuoteBareKeys(s, i + 1, Append(out, s[i]))

\* re.sub(r'\s*:\s*', ':', repaired)
RECURSIVE TightenColons(_, _, _)
TightenColons(s, i, out) ==
    IF i > Len(s) THEN out
    ELSE LET c == SkipSpace(s, i)
         IN IF c <= Len(s) /\ s[c] = ":"
            THEN TightenColons(s, SkipSpace(s, c + 1), Append(out, ":"))
            ELSE TightenColons(s, i + 1, Append(out, s[i]))

\* if repaired.startswith('"') and repaired.endswith('"'): repaired = repaired[1:-1]
StripOuterQuotes(s) ==
    IF Len(s) >= 1 /\ s[1] = DQ /\ s[Len(s)] = DQ
    THEN SubSeq(s, 2, Len(s) - 1)
    ELSE s

\* re.sub(r'\s+', ' ', repaired)
RECURSIVE CollapseSpace(_, _, _)
CollapseSpace(s, i, out) ==
    IF i > Len(s) THEN out
    ELSE IF IsSpace(s[i])
         THEN CollapseSpace(s, SkipSpace(s, i), Append(out, " "))
         ELSE CollapseSpace(s, i + 1, Append(out, s[i]))

EmptyObject == <<"{", "}">>

repair_json(s) ==
    IF s = <<>> \/ IsBlank(s) THEN EmptyObject
    ELSE LET r3 == ProtectedQuoteFix(s)
             r4 == RemoveTrailingCommas(r3, 1, <<>>)
             r5 == AddMissingCommas(r4, 1, <<>>)
             r6 == QuoteBareKeys(r5, 1, <<>>)
             r7 == TightenColons(r6, 1, <<>>)
             r8 == StripOuterQuotes(r7)
             start == find(r8, "{")
             end == rfind(r8, "}")
         IN IF start # 0 /\ end # 0
            THEN CollapseSpace(SubSeq(r8, start, end), 1, <<>>)
            ELSE EmptyObject

(***************************************************************************)
(* json.loads / json.dumps on the alphabet.  A decoded value is a record   *)
(* [t, v]: an int, a str (sequence of characters), an arr (sequence of     *)
(* values) or an obj (sequence of <<key, value>> pairs with distinct keys, *)
(* in insertion order, as a Python dict).  The alphabet holds no letters   *)
(* of true, false, null, NaN, Infinity, no sign, point or exponent.        *)
(***************************************************************************)
JInt(n) == [t |-> "int", v |-> n]
JStr(s) == [t |-> "str", v |-> s]
JArr(items) == [t |-> "arr", v |-> items]
JObj(pairs) == [t |-> "obj", v |-> pairs]

Fail == [ok |-> FALSE, val |-> None, end |-> 0]
Ok(value, end) == [ok |-> TRUE, val |-> value, end |-> end]

IsDigit(c) == c \in {"0", "1", "2", "3", "4", "5", "6", "7", "8", "9"}
DigitVal(c) == CHOOSE d \in 0..9 : Digit(d) = c

\* dict item assignment on a sequence of pairs
RECURSIVE DictSet(_, _, _)
DictSet(pairs, key, value) ==
    IF pairs = <<>> THEN <<<<key, value>>>>
    ELSE IF pairs[1][1] = key THEN <<<<key, value>>>> \o Tail(pairs)
    ELSE <<pairs[1]>> \o DictSet(Tail(pairs), key, value)

HasKey(pairs, key) == \E k \in 1..Len(pairs) : pairs[k][1] = key
DictGet(pairs, key) == pairs[CHOOSE k \in 1..Len(pairs) : pairs[k][1] = key][2]

\* json.decoder.scanstring, called with i just after the opening quote
RECURSIVE scanstring(_, _, _)
scanstring(s, i, chunks) ==
    IF i > Len(s) THEN Fail                       \* Unterminated string
    ELSE IF s[i] = DQ THEN Ok(JStr(chunks), i + 1)
    ELSE IF s[i] = BS
         THEN IF i + 1 <= Len(s) /\ s[i + 1] \in {DQ, BS}
              THEN scanstring(s, i + 2, Append(chunks, s[i + 1]))
              ELSE Fail                           \* Invalid \escape
    ELSE scanstring(s, i + 1, Append(chunks, s[i]))

\* NUMBER_RE = (-?(?:0|[1-9]\d*))(\.\d+)?([eE][-+]?\d+)? matched at i
RECURSIVE ScanDigits(_, _, _)
ScanDigits(s, i, n) ==
    IF i <= Len(s) /\ IsDigit(s[i])
    THEN ScanDigits(s, i + 1, n * 10 + DigitVal(s[i]))
    ELSE Ok(JInt(n), i)

match_number(s, i) ==
    IF s[i] = "0" THEN Ok(JInt(0), i + 1) ELSE ScanDigits(s, i, 0)

RECURSIVE scan_once(_, _)
RECURSIVE ObjectPairs(_, _, _)
RECURSIVE ArrayValues(_, _, _)

\* JSONObject's while loop, entered with i just after the opening quote of a key
ObjectPairs(s, i, pairs) ==
    LET key == scanstring(s, i, <<>>)
        colon == IF key.ok THEN SkipSpace(s, key.end) ELSE 0
        value == IF key.ok /\ colon <= Len(s) /\ s[colon] = ":"
                 THEN scan_once(s, SkipSpace(s, colon + 1))
                 ELSE Fail
        next == IF value.ok THEN SkipSpace(s, value.end) ELSE 0
        more == DictSet(pairs, key.val.v, value.val)
        q == SkipSpace(s, next + 1)
    IN IF ~value.ok \/ next > Len(s) THEN Fail
       ELSE IF s[next] = "}" THEN Ok(JObj(more), next + 1)
       ELSE IF s[next] # "," THEN Fail            \* Expecting ',' delimiter
       ELSE IF q <= Len(s) /\ s[q] = DQ THEN ObjectPairs(s, q + 1, more)
       ELSE Fail                                  \* Expecting property name

\* JSONObject, called with i just after the opening brace
JSONObject(s, i) ==
    LET q == SkipSpace(s, i)
    IN IF q > Len(s) THEN Fail
       ELSE IF s[q] = "}" THEN Ok(JObj(<<>>), q + 1)
       ELSE IF s[q] = DQ THEN ObjectPairs(s, q + 1, <<>>)
       ELSE Fail                                  \* Expecting property name

\* JSONArray's while loop, entered with i at the start of a value
ArrayValues(s, i, values) ==
    LET value == scan_once(s, i)
        next == IF value.ok THEN SkipSpace(s, value.end) ELSE 0
    IN IF ~value.ok \/ next > Len(s) THEN Fail
       ELSE IF s[next] = "]" THEN Ok(JArr(Append(values, value.val)), next + 1)
       ELSE IF s[next] # "," THEN Fail            \* Expecting ',' delimiter
       ELSE ArrayValues(s, SkipSpace(s, next + 1), Append(values, value.val))

\* JSONArray, called with i just after the opening bracket
JSONArray(s, i) ==
    LET q == SkipSpace(s, i)
    IN IF q <= Len(s) /\ s[q] = "]" THEN Ok(JArr(<<>>), q + 1)
       ELSE ArrayValues(s, q, <<>>)

\* json.scanner: one value starting at i
scan_once(s, i) ==
    IF i > Len(s) THEN Fail                       \* StopIteration
    ELSE IF s[i] = DQ THEN scanstring(s, i + 1, <<>>)
    ELSE IF s[i] = "{" THEN JSONObject(s, i + 1)
    ELSE IF s[i] = "[" THEN JSONArray(s, i + 1)
    ELSE IF IsDigit(s[i]) THEN match_number(s, i)
    ELSE Fail                                     \* Expecting value

\* json.loads(s): JSONDecoder.decode; .ok is FALSE where it raises JSONDecodeError
json_loads(s) ==
    LET obj == scan_once(s, SkipSpace(s, 1))
    IN IF obj.ok /\ SkipSpace(s, obj.end) = Len(s) + 1 THEN obj
       ELSE Fail                                  \* Expecting value / Extra data

\* json.dumps(value) with the default separators
RECURSIVE json_dumps(_)
RECURSIVE DumpItems(_, _)
RECURSIVE DumpPairs(_, _)
RECURSIVE EscapeString(_)

EscapeString(s) ==
    IF s = <<>> THEN <<>>
    ELSE (IF Head(s) \in {DQ, BS} THEN <<BS, Head(s)>> ELSE <<Head(s)>>)
         \o EscapeString(Tail(s))

DumpItems(items, k) ==
    IF k > Len(items) THEN <<>>
    ELSE (IF k > 1 THEN <<",", " ">> ELSE <<>>)
         \o json_dumps(items[k]) \o DumpItems(items, k + 1)

DumpPairs(pairs, k) ==
    IF k > Len(pairs) THEN <<>>
    ELSE (IF k > 1 THEN <<",", " ">> ELSE <<>>)
         \o <<DQ>> \o EscapeString(pairs[k][1]) \o <<DQ, ":", " ">>
         \o json_dumps(pairs[k][2]) \o DumpPairs(pairs, k + 1)

json_dumps(value) ==
    IF value.t = "int" THEN Str(value.v)
    ELSE IF value.t = "str" THEN <<DQ>> \o EscapeString(value.v) \o <<DQ>>
    ELSE IF value.t = "arr" THEN <<"[">> \o DumpItems(value.v, 1) \o <<"]">>
    ELSE <<"{">> \o DumpPairs(value.v, 1) \o <<"}">>

(***************************************************************************)
(* pydantic_utils: JSON schema -> output model.  A schema is a record      *)
(* [type, properties, items, required]; properties is a sequence of        *)
(* <<name, schema>> pairs (a dict), items a sequence holding at most one   *)
(* schema, required a set of names.  A compiled model is a sequence of     *)
(* field definitions [name, type, required].                               *)
(***************************************************************************)
Schema(type, properties, items, required) ==
    [type |-> type, properties |-> properties, items |-> items, required |-> required]

Scalar(type) == Schema(type, <<>>, <<>>, {})

RECURSIVE json_schema_to_pydantic_type(_)
RECURSIVE json_schema_to_model(_)

\* (type_, Field(default=... if name in required else None))
json_schema_to_pydantic_field(name, json_schema, required) ==
    [name |-> name,
     type |-> json_schema_to_pydantic_type(json_schema),
     required |-> name \in required]

\* create_model(model_name, **field_definitions): one field per property
json_schema_to_model(json_schema) ==
    [k \in 1..Len(json_schema.properties) |->
        json_schema_to_pydantic_field(json_schema.properties[k][1],
                                      json_schema.properties[k][2],
                                      json_schema.required)]

json_schema_to_pydantic_type(json_schema) ==
    IF json_schema.type = "string" THEN [k |-> "str"]
    ELSE IF json_schema.type = "integer" THEN [k |-> "int"]
    ELSE IF json_schema.type = "number" THEN [k |-> "float"]
    ELSE IF json_schema.type = "boolean" THEN [k |-> "bool"]
    ELSE IF json_schema.type = "array"
         THEN IF json_schema.items # <<>>
              THEN [k |-> "List", item |-> json_schema_to_pydantic_type(json_schema.items[1])]
              ELSE [k |-> "List", item |-> [k |-> "Any"]]
    ELSE IF json_schema.type = "object"
         THEN IF json_schema.properties # <<>>
              THEN [k |-> "Model", fields |-> json_schema_to_model(json_schema)]
              ELSE [k |-> "Dict"]
    ELSE IF json_schema.type = "null" THEN [k |-> "Any"]
    ELSE [k |-> "ValueError"]            \* Unsupported JSON schema type

(***************************************************************************)
(* output_model.model_validate (pydantic, lax mode) on decoded JSON.       *)
(* A result is [errors, value]: errors is a sequence of [loc, type], value *)
(* the validated value when errors is empty.                               *)
(***************************************************************************)
Valid(value) == [errors |-> <<>>, value |-> value]
Invalid(loc, type) == [errors |-> <<[loc |-> loc, type |-> type]>>, value |-> None]

\* str.strip() on spaces
RECURSIVE StripRight(_)
StripRight(s) ==
    IF s # <<>> /\ IsSpace(s[Len(s)]) THEN StripRight(SubSeq(s, 1, Len(s) - 1)) ELSE s

Strip(s) == StripRight(SubSeq(s, SkipSpace(s, 1), Len(s)))

AllDigits(s) == s # <<>> /\ \A i \in 1..Len(s) : IsDigit(s[i])

RECURSIVE validate_type(_, _, _)
RECURSIVE validate_items(_, _, _, _, _)
RECURSIVE validate_fields(_, _, _, _, _, _)

\* every element of a list, errors of all elements collected
validate_items(item_type, items, k, loc, acc) ==
    IF k > Len(items) THEN acc
    ELSE LET r == validate_type(item_type, items[k], Append(loc, Str(k - 1)))
         IN validate_items(item_type, items, k + 1, loc,
                [errors |-> acc.errors \o r.errors,
                 value |-> IF acc.errors = <<>> /\ r.errors = <<>>
                           THEN JArr(Append(acc.value.v, r.value)) ELSE None])

\* every declared field of a model; undeclared keys are ignored
validate_fields(fields, pairs, k, loc, errors, out) ==
    IF k > Len(fields)
    THEN [errors |-> errors, value |-> IF errors = <<>> THEN JObj(out) ELSE None]
    ELSE LET f == fields[k]
             r == IF HasKey(pairs, f.name)
                  THEN validate_type(f.type, DictGet(pairs, f.name), Append(loc, f.name))
                  ELSE IF f.required THEN Invalid(Append(loc, f.name), "missing")
                  ELSE Valid(None)
         IN validate_fields(fields, pairs, k + 1, loc, errors \o r.errors,
                            Append(out, <<f.name, r.value>>))

validate_type(type, value, loc) ==
    IF type.k = "int"
    THEN IF value.t = "int" THEN Valid(value)
         ELSE IF value.t = "str" /\ AllDigits(Strip(value.v))
              THEN Valid(ScanDigits(Strip(value.v), 1, 0).val)
         ELSE IF value.t = "str" THEN Invalid(loc, "int_parsing")
         ELSE Invalid(loc, "int_type")
    ELSE IF type.k = "float"
    THEN IF value.t = "int" THEN Valid([t |-> "float", v |-> value.v])
         ELSE IF value.t = "str" /\ AllDigits(Strip(value.v))
              THEN Valid([t |-> "float", v |-> ScanDigits(Strip(value.v), 1, 0).val.v])
         ELSE IF value.t = "str" THEN Invalid(loc, "float_parsing")
         ELSE Invalid(loc, "float_type")
    ELSE IF type.k = "bool"
    THEN IF value.t = "int" /\ value.v \in {0, 1} THEN Valid([t |-> "bool", v |-> value.v = 1])
         ELSE IF value.t = "str" /\ value.v \in {<<"0">>, <<"1">>}
              THEN Valid([t |-> "bool", v |-> value.v = <<"1">>])
         ELSE IF value.t \in {"int", "str"} THEN Invalid(loc, "bool_parsing")
         ELSE Invalid(loc, "bool_type")
    ELSE IF type.k = "str"
    THEN IF value.t = "str" THEN Valid(value) ELSE Invalid(loc, "string_type")
    ELSE IF type.k = "List"
    THEN IF value.t = "arr"
         THEN validate_items(type.item, value.v, 1, loc, Valid(JArr(<<>>)))
         ELSE Invalid(loc, "list_type")
    ELSE IF type.k = "Model"
    THEN IF value.t = "obj"
         THEN validate_fields(type.fields, value.v, 1, loc, <<>>, <<>>)
         ELSE Invalid(loc, "model_type")
    ELSE IF type.k = "Dict"
    THEN IF value.t = "obj" THEN Valid(value) ELSE Invalid(loc, "dict_type")
    ELSE Valid(value)                    \* Any

\* self.output_model.model_validate(assistant_message_dict)
model_validate(output_model, value) ==
    validate_type([k |-> "Model", fields |-> output_model], value, <<>>)

(***************************************************************************)
(* SingleLLMCallNode.run: classification of a generate_text failure.       *)
(* An error text is a sequence of phrases; every keyword the code looks    *)
(* for is one phrase, so "kw in error_str" is membership of the phrase.    *)
(***************************************************************************)
Phrases == {"litellm", "LiteLLM", "VertexAIError", "The model is overloaded",
            "the model is overloaded", "Rate limit", "exceeded", "Context Length",
            "maximum token", "Invalid API key", "authentication", "Bad Gateway", "503"}

\* str.lower() of one phrase
LowerPhrase(p) ==
    CASE p = "LiteLLM" -> "litellm"
      [] p = "VertexAIError" -> "vertexaierror"
      [] p = "The model is overloaded" -> "the model is overloaded"
      [] p = "Rate limit" -> "rate limit"
      [] p = "Context Length" -> "context length"
      [] p = "Invalid API key" -> "invalid api key"
      [] p = "Bad Gateway" -> "bad gateway"
      [] OTHER -> p

\* error_str.lower()
lower(text) == [i \in 1..Len(text) |-> LowerPhrase(text[i])]

\* kw in text
Contains(text, kw) == \E i \in 1..Len(text) : text[i] = kw

\* model_name.split("/")[0] if "/" in model_name else "unknown"
ProviderOf(name) ==
    IF find(name, "/") # 0 THEN SubSeq(name, 1, find(name, "/") - 1) ELSE <<"unknown">>

\* lines 191-217: the if/elif chain
ErrorTypeOf(text) ==
    IF Contains(text, "VertexAIError") /\ Contains(text, "The model is overloaded")
    THEN "overloaded"
    ELSE IF Contains(lower(text), "rate limit") THEN "rate_limit"
    ELSE IF Contains(lower(text), "context length") \/ Contains(lower(text), "maximum token")
    THEN "context_length"
    ELSE IF Contains(lower(text), "invalid api key") \/ Contains(lower(text), "authentication")
    THEN "auth"
    ELSE IF Contains(lower(text), "bad gateway") \/ Contains(text, "503")
    THEN "service_unavailable"
    ELSE "unknown"

ErrorMessageOf(error_type) ==
    CASE error_type = "overloaded" ->
            "The model is currently overloaded. Please try again later."
      [] error_type = "rate_limit" ->
            "Rate limit exceeded. Please try again in a few minutes."
      [] error_type = "context_length" ->
            "Input is too long for the model's context window. Please reduce the input length."
      [] error_type = "auth" ->
            "Authentication error with the LLM service. Please check your API key."
      [] error_type = "service_unavailable" ->
            "The LLM service is temporarily unavailable. Please try again later."
      [] OTHER -> "An error occurred with the LLM service"

\* faulty variant: the test without .lower()
IsLiteLLMErrorCaseSensitive(text) == Contains(text, "litellm")

\* "litellm" in error_str.lower()
IsLiteLLMError(text) == Contains(lower(text), "litellm")

\* Exception(json.dumps({...})): the payload is the JSON object of the message
Classified(payload) == [exc |-> "Exception", classified |-> TRUE, payload |-> payload]

\* an exception that leaves run as it was raised
Unclassified(exc, detail) == [exc |-> exc, classified |-> FALSE, detail |-> detail]

\* lines 185-230: what the except block raises
ProviderFailure(text, name) ==
    IF IsLiteLLMError(text)
    THEN Classified([type |-> "model_provider_error",
                     provider |-> ProviderOf(name),
                     error_type |-> ErrorTypeOf(text),
                     message |-> ErrorMessageOf(ErrorTypeOf(text)),
                     original_error |-> text])
    ELSE Unclassified("Exception", text)

\* str(inner_e) of a JSONDecodeError: "<msg>: line L column C (char N)", which
\* holds no character of the document
DecodeErrorText == <<"JSONDecodeError">>

\* lines 238-250: what the inner except block raises
ParsingFailure(text) ==
    Classified([type |-> "parsing_error",
                error_type |-> "json_parse_error",
                message |-> "An error occurred while parsing and repairing the assistant message",
                original_error |-> DecodeErrorText,
                assistant_message_str |-> text])

(***************************************************************************)
(* Inputs of SingleLLMCallNode                                             *)
(***************************************************************************)
MaxRawLen == 3
MaxErrorLen == 3

kx == <<"x">>
kxx == <<"x", "x">>

ObjectSchema(properties, required) == Schema("object", properties, <<>>, required)

\* node configurations: output_json_schema (decoded) and llm_info.model
Configs ==
    { [schema |-> ObjectSchema(<< <<kx, Scalar("integer")>> >>, {kx}),
       model |-> <<"openai", "/", "gpt-4o">>],
      [schema |-> ObjectSchema(<< <<kx, Scalar("integer")>>, <<kxx, Scalar("string")>> >>, {kxx}),
       model |-> <<"gpt-4o">>],
      [schema |-> ObjectSchema(<< <<kx, Schema("array", <<>>, <<Scalar("integer")>>, {})>> >>, {kx}),
       model |-> <<"openrouter", "/", "meta", "/", "llama">>],
      [schema |-> ObjectSchema(<< <<kx, ObjectSchema(<< <<kx, Scalar("string")>> >>, {kx})>>,
                                  <<kxx, Scalar("null")>> >>, {kx, kxx}),
       model |-> <<"/", "gpt-4o">>] }

\* longer model outputs, well-formed or nearly so
RawSamples ==
    { <<"{", DQ, "x", DQ, ":", " ", "5", "}">>,
      <<"{", SQ, "x", SQ, ":", "5", ",", "}">>,
      <<"{", "x", ":", "5", "}">>,
      <<"{", DQ, "x", DQ, ":", DQ, "5", DQ, "}">>,
      <<"{", DQ, "x", DQ, ":", DQ, "x", DQ, "}">>,
      <<"{", DQ, "x", "x", DQ, ":", DQ, "x", DQ, "}">>,
      <<"{", DQ, "x", DQ, ":", "5", ",", DQ, "x", "x", DQ, ":", DQ, DQ, "}">>,
      <<"{", DQ, "x", DQ, ":", "[", "5", ",", "0", "]", "}">>,
      <<"{", DQ, "x", DQ, ":", "[", "5", ",", DQ, "x", DQ, "]", "}">>,
      <<"{", "x", ":", "{", "x", ":", SQ, "x", SQ, "}", ",", "x", "x", ":", "5", "}">>,
      <<"{", DQ, "x", DQ, ":", "{", "}", ",", DQ, "x", "x", DQ, ":", "5", "}">>,
      <<"x", " ", "{", DQ, "x", DQ, ":", "5", "}", " ", "x">> }

RawInputs == StringsUpTo(Alphabet, MaxRawLen) \cup RawSamples

ErrorTexts == StringsUpTo(Phrases, MaxErrorLen)

(***************************************************************************)
(* SingleLLMCallNode.run, from the generate_text call on                   *)
(***************************************************************************)
InitLLM ==
    /\ pc = "generate_text"
    /\ \E c \in Configs : output_json_schema = c.schema /\ model_name = c.model
    /\ broken_json_str = <<>> /\ restored = NoText /\ repaired1 = NoText /\ repaired2 = NoText
    /\ error_str = NoText /\ assistant_message_str = NoText /\ repaired_str = NoText
    /\ assistant_message_dict = None
    /\ loads_calls = 0 /\ repair_calls = 0 /\ trace = <<>>
    /\ raised = None /\ returned = None
    /\ crawl_id = NoText /\ attempt = 0 /\ polls = 0 /\ sleeps = <<>>
    /\ status_response = None /\ logged = <<>>

\* lines 176-184: generate_text returns text
GenerateTextReturns ==
    /\ pc = "generate_text"
    /\ \E text \in RawInputs : assistant_message_str' = text
    /\ pc' = "loads"
    /\ UNCHANGED <<output_json_schema, model_name, error_str, repaired_str,
                   assistant_message_dict, loads_calls, repair_calls, trace,
                   raised, returned, repairVars, crawlVars>>

\* lines 185-230: generate_text raises, the except block classifies
GenerateTextRaises ==
    /\ pc = "generate_text"
    /\ \E text \in ErrorTexts :
          /\ error_str' = text
          /\ raised' = ProviderFailure(text, model_name)
    /\ pc' = "raised"
    /\ UNCHANGED <<output_json_schema, model_name, assistant_message_str, repaired_str,
                   assistant_message_dict, loads_calls, repair_calls, trace,
                   returned, repairVars, crawlVars>>

\* faulty variant: the repair runs whether or not the strict parse succeeded
StrictParseThenAlwaysRepair ==
    /\ pc = "loads"
    /\ loads_calls' = loads_calls + 1
    /\ trace' = Append(trace, "json.loads")
    /\ assistant_message_dict' = assistant_message_dict
    /\ pc' = "repair_json"
    /\ UNCHANGED <<output_json_schema, model_name, error_str, assistant_message_str,
                   repaired_str, repair_calls, raised, returned, repairVars, crawlVars>>

\* lines 232-234: json.loads(assistant_message_str)
StrictParse ==
    /\ pc = "loads"
    /\ loads_calls' = loads_calls + 1
    /\ trace' = Append(trace, "json.loads")
    /\ LET r == json_loads(assistant_message_str)
       IN IF r.ok
          THEN assistant_message_dict' = r.val /\ pc' = "model_validate"
          ELSE assistant_message_dict' = assistant_message_dict /\ pc' = "repair_json"
    /\ UNCHANGED <<output_json_schema, model_name, error_str, assistant_message_str,
                   repaired_str, repair_calls, raised, returned, repairVars, crawlVars>>

\* line 236: repaired_str = repair_json(assistant_message_str)
RepairText ==
    /\ pc = "repair_json"
    /\ repair_calls' = repair_calls + 1
    /\ trace' = Append(trace, "repair_json")
    /\ repaired_str' = repair_json(assistant_message_str)
    /\ pc' = "loads_repaired"
    /\ UNCHANGED <<output_json_schema, model_name, error_str, assistant_message_str,
                   assistant_message_dict, loads_calls, raised, returned,
                   repairVars, crawlVars>>

\* lines 237-250: json.loads(repaired_str), and the inner except block
ParseRepaired ==
    /\ pc = "loads_repaired"
    /\ loads_calls' = loads_calls + 1
    /\ trace' = Append(trace, "json.loads")
    /\ LET r == json_loads(repaired_str)
       IN IF r.ok
          THEN /\ assistant_message_dict' = r.val
               /\ pc' = "model_validate"
               /\ raised' = raised
          ELSE /\ assistant_message_dict' = assistant_message_dict
               /\ pc' = "raised"
               /\ raised' = ParsingFailure(assistant_message_str)
    /\ UNCHANGED <<output_json_schema, model_name, error_str, assistant_message_str,
                   repaired_str, repair_calls, returned, repairVars, crawlVars>>

\* lines 252-254: self.output_model.model_validate(assistant_message_dict);
\* output_model was compiled from the schema by setup (lines 129-136)
ValidateOutput ==
    /\ pc = "model_validate"
    /\ trace' = Append(trace, "model_validate")
    /\ LET r == model_validate(json_schema_to_model(output_json_schema),
                               assistant_message_dict)
       IN IF r.errors = <<>>
          THEN returned' = r.value /\ raised' = raised /\ pc' = "returned"
          ELSE returned' = returned /\ pc' = "raised"
               /\ raised' = Unclassified("ValidationError", r.errors)
    /\ UNCHANGED <<output_json_schema, model_name, error_str, assistant_message_str,
                   repaired_str, assistant_message_dict, loads_calls, repair_calls,
                   repairVars, crawlVars>>

NextLLM ==
    \/ GenerateTextReturns
    \/ GenerateTextRaises
    \/ StrictParse
    \/ RepairText
    \/ ParseRepaired
    \/ ValidateOutput

SpecLLM == InitLLM /\ [][NextLLM]_vars

(***************************************************************************)
(* repair_json called on its own: once, then again on its own output       *)
(***************************************************************************)
MaxRepairLen == 4

\* ["x","x", ... ,"x",] with n literals: a list with a trailing comma
RECURSIVE QuotedList(_)
QuotedList(n) == IF n = 0 THEN <<>> ELSE <<DQ, "x", DQ, ",">> \o QuotedList(n - 1)

RepairSamples == { <<"[">> \o QuotedList(n) \o <<"]">> : n \in {2, 11} }

\* every text of up to n characters, and the samples
RepairInputs(n) == StringsUpTo(Alphabet, n) \cup RepairSamples

InitRepair ==
    /\ pc = "repair_once"
    /\ broken_json_str \in RepairInputs(MaxRepairLen)
    /\ restored = NoText /\ repaired1 = NoText /\ repaired2 = NoText
    /\ output_json_schema = None /\ model_name = NoText
    /\ error_str = NoText /\ assistant_message_str = NoText /\ repaired_str = NoText
    /\ assistant_message_dict = None
    /\ loads_calls = 0 /\ repair_calls = 0 /\ trace = <<>>
    /\ raised = None /\ returned = None
    /\ crawl_id = NoText /\ attempt = 0 /\ polls = 0 /\ sleeps = <<>>
    /\ status_response = None /\ logged = <<>>

\* repair_json(broken_json_str); restored is the text at line 51, which a
\* blank argument never reaches
RepairOnce ==
    /\ pc = "repair_once"
    /\ restored' = IF broken_json_str = <<>> \/ IsBlank(broken_json_str)
                   THEN NoText
                   ELSE ProtectedQuoteFix(broken_json_str)
    /\ repaired1' = repair_json(broken_json_str)
    /\ pc' = "repair_twice"
    /\ UNCHANGED <<broken_json_str, repaired2, llmVars, raised, returned, crawlVars>>

\* repair_json(repair_json(broken_json_str))
RepairTwice ==
    /\ pc = "repair_twice"
    /\ repaired2' = repair_json(repaired1)
    /\ pc' = "repair_done"
    /\ UNCHANGED <<broken_json_str, restored, repaired1, llmVars, raised, returned,
                   crawlVars>>

NextRepair ==
    \/ RepairOnce
    \/ RepairTwice

SpecRepair == InitRepair /\ [][NextRepair]_vars

(***************************************************************************)
(* FirecrawlCrawlNode.run                                                  *)
(***************************************************************************)
\* faulty variant: one attempt too many
MaxAttemptsOffByOne == 30 + 1

max_attempts == 30
base_delay == 2
delay_cap == 60

Min(a, b) == IF a < b THEN a ELSE b

\* faulty variant: the backoff without its cap
DelayUncapped(i) == base_delay * (2 ^ i)

\* delay = min(base_delay * (2**attempt), 60)
Delay(i) == Min(base_delay * (2 ^ i), delay_cap)

\* crawl_obj.get("id")
CrawlIds == {<<>>, <<"x", "5">>}

\* what check_crawl_status may answer: data and error hold at most one element
\* (the key may be absent)
StatusResponses ==
    { [status |-> "completed", data |-> <<JArr(<<>>)>>, error |-> <<>>],
      [status |-> "completed",
       data |-> <<JArr(<<JObj(<< <<kx, JStr(<<"x", DQ>>)>> >>), JInt(5)>>)>>, error |-> <<>>],
      [status |-> "completed", data |-> <<>>, error |-> <<>>],
      [status |-> "failed", data |-> <<>>, error |-> <<"robots.txt disallows the crawl">>],
      [status |-> "failed", data |-> <<>>, error |-> <<"quota exceeded">>],
      [status |-> "failed", data |-> <<>>, error |-> <<>>],
      [status |-> "scraping", data |-> <<>>, error |-> <<>>],
      [status |-> "scraping", data |-> <<JArr(<<>>)>>, error |-> <<>>] }

\* status_response.get("data", {})
DataOf(response) == IF response.data # <<>> THEN response.data[1] ELSE JObj(<<>>)

\* status_response.get('error', 'Unknown error')
ReasonOf(response) == IF response.error # <<>> THEN response.error[1] ELSE "Unknown error"

\* FirecrawlCrawlNodeOutput(crawl_result=...)
CrawlOutput(text) == [crawl_result |-> text]

\* lines 88-92: the return on "completed"
CompletedOutput(response) == CrawlOutput(json_dumps(DataOf(response)))

\* lines 94-97: the raise on "failed"
CrawlFailed(response) == Unclassified("ValueError", <<"Crawl failed: ", ReasonOf(response)>>)

\* line 103
CrawlTimeout ==
    Unclassified("TimeoutError",
                 <<"Crawl did not complete within the maximum allowed time">>)

\* line 78
NoCrawlId == Unclassified("ValueError", <<"No crawl ID received from async crawl request">>)

\* line 107: what the except block returns, whatever was raised
ExceptOutput(e) == CrawlOutput(<<>>)

InitCrawl ==
    /\ pc = "async_crawl_url"
    /\ broken_json_str = <<>> /\ restored = NoText /\ repaired1 = NoText /\ repaired2 = NoText
    /\ output_json_schema = None /\ model_name = NoText
    /\ error_str = NoText /\ assistant_message_str = NoText /\ repaired_str = NoText
    /\ assistant_message_dict = None
    /\ loads_calls = 0 /\ repair_calls = 0 /\ trace = <<>>
    /\ raised = None /\ returned = None
    /\ crawl_id = NoText /\ attempt = 0 /\ polls = 0 /\ sleeps = <<>>
    /\ status_response = None /\ logged = <<>>

\* lines 67-78: the crawl is submitted; no id is a ValueError
AsyncCrawlUrl ==
    /\ pc = "async_crawl_url"
    /\ \E id \in CrawlIds :
          /\ crawl_id' = id
          /\ IF id = <<>>
             THEN raised' = NoCrawlId /\ pc' = "except"
             ELSE raised' = raised /\ pc' = "check_crawl_status"
    /\ UNCHANGED <<attempt, polls, sleeps, status_response, logged, returned,
                   repairVars, llmVars>>

\* lines 84-100: one iteration of the loop up to the sleep
CheckCrawlStatus ==
    /\ pc = "check_crawl_status"
    /\ attempt < max_attempts
    /\ polls' = polls + 1
    /\ \E response \in StatusResponses :
          /\ status_response' = response
          /\ IF response.status = "completed"
             THEN returned' = CompletedOutput(response) /\ raised' = raised
                  /\ pc' = "returned"
             ELSE IF response.status = "failed"
             THEN raised' = CrawlFailed(response) /\ returned' = returned
                  /\ pc' = "except"
             ELSE raised' = raised /\ returned' = returned /\ pc' = "sleep"
    /\ UNCHANGED <<crawl_id, attempt, sleeps, logged, repairVars, llmVars>>

\* line 101: await asyncio.sleep(delay), then the next iteration
Sleep ==
    /\ pc = "sleep"
    /\ sleeps' = Append(sleeps, Delay(attempt))
    /\ attempt' = attempt + 1
    /\ pc' = "check_crawl_status"
    /\ UNCHANGED <<crawl_id, polls, status_response, logged, raised, returned,
                   repairVars, llmVars>>

\* line 103: the loop ran out
RaiseTimeout ==
    /\ pc = "check_crawl_status"
    /\ attempt >= max_attempts
    /\ raised' = CrawlTimeout
    /\ pc' = "except"
    /\ UNCHANGED <<crawl_id, attempt, polls, sleeps, status_response, logged, returned,
                   repairVars, llmVars>>

\* lines 105-107: except Exception
ExceptBlock ==
    /\ pc = "except"
    /\ logged' = Append(logged, <<"Failed to crawl URL: ">> \o raised.detail)
    /\ returned' = ExceptOutput(raised)
    /\ pc' = "returned"
    /\ UNCHANGED <<crawl_id, attempt, polls, sleeps, status_response, raised,
                   repairVars, llmVars>>

NextCrawl ==
    \/ AsyncCrawlUrl
    \/ CheckCrawlStatus
    \/ Sleep
    \/ RaiseTimeout
    \/ ExceptBlock

SpecCrawl == InitCrawl /\ [][NextCrawl]_vars

(***************************************************************************)
(* Properties of SingleLLMCallNode.run (SpecLLM)                           *)
(***************************************************************************)
\* text occurs in field
IsSubstring(text, field) == \E i \in 1..(Len(field) + 1) : StartsWithAt(field, i, text)

\* run has reached model_validate and left it
Validated == pc \in {"returned", "raised"} /\ trace # <<>> /\ trace[Len(trace)] = "model_validate"

\* value has the declared type
RECURSIVE HasDeclaredType(_, _)
HasDeclaredType(type, value) ==
    IF type.k = "int" THEN value.t = "int"
    ELSE IF type.k = "str" THEN value.t = "str"
    ELSE IF type.k = "List"
    THEN value.t = "arr" /\ \A i \in 1..Len(value.v) : HasDeclaredType(type.item, value.v[i])
    ELSE IF type.k = "Model"
    THEN /\ value.t = "obj"
         /\ \A k \in 1..Len(type.fields) :
               IF HasKey(value.v, type.fields[k].name)
               THEN HasDeclaredType(type.fields[k].type, DictGet(value.v, type.fields[k].name))
               ELSE ~type.fields[k].required
    ELSE IF type.k = "Dict" THEN value.t = "obj"
    ELSE TRUE

OutputFields == json_schema_to_model(output_json_schema)

MissingRequired ==
    {k \in 1..Len(OutputFields) :
        OutputFields[k].required /\ ~HasKey(assistant_message_dict.v, OutputFields[k].name)}

\* C1: on text that decodes to an object, validation succeeds with the supplied
\* values when every declared field that is supplied has its declared type and
\* every required field is supplied; when a required field is missing it fails
\* with a classified error of kind validation_error that names the field.
C1_MissingRequiredIsClassified ==
    (Validated /\ assistant_message_dict.t = "obj") =>
        /\ HasDeclaredType([k |-> "Model", fields |-> OutputFields], assistant_message_dict)
              => /\ pc = "returned"
                 /\ \A k \in 1..Len(OutputFields) :
                       (/\ OutputFields[k].type.k \in {"int", "str"}
                        /\ HasKey(assistant_message_dict.v, OutputFields[k].name))
                       => DictGet(returned.v, OutputFields[k].name)
                            = DictGet(assistant_message_dict.v, OutputFields[k].name)
        /\ MissingRequired # {}
              => /\ pc = "raised"
                 /\ raised.classified
                 /\ raised.payload.type = "validation_error"
                 /\ \A k \in MissingRequired :
                       IsSubstring(OutputFields[k].name, raised.payload.message)

\* the parse and repair calls run may have made so far
DecodeCalls == <<"json.loads", "repair_json", "json.loads">>
Decoded == pc \in {"model_validate", "returned", "raised"} /\ loads_calls >= 1

\* C2: repair_json is called only after json.loads(raw) failed, and at most once;
\* raw text that parses is returned as parsed with no repair; after a failed parse
\* there is exactly one repair followed by exactly one more json.loads.
C2_RepairOnlyAfterFailedParse ==
    /\ repair_calls <= 1
    /\ loads_calls <= 2
    /\ \A i \in 1..Len(trace) : i <= 3 => trace[i] \in {DecodeCalls[i], "model_validate"}
    /\ \A i \in 1..Len(trace) : trace[i] = "model_validate" => i = Len(trace)
    /\ repair_calls = 1 => ~json_loads(assistant_message_str).ok
    /\ (Decoded /\ json_loads(assistant_message_str).ok)
          => /\ repair_calls = 0
             /\ loads_calls = 1
             /\ assistant_message_dict = json_loads(assistant_message_str).val
    /\ (Decoded /\ ~json_loads(assistant_message_str).ok)
          => /\ repair_calls = 1
             /\ loads_calls = 2
             /\ repaired_str = repair_json(assistant_message_str)

\* C2 witness: a failed strict parse, one repair, and a second parse that succeeded
C2_Witness ==
    /\ pc = "model_validate"
    /\ trace = DecodeCalls
    /\ repaired_str # assistant_message_str

\* both parses failed
BothParsesFailed == pc = "raised" /\ loads_calls = 2 /\ trace[Len(trace)] = "json.loads"

\* C3: when both parses fail, run ends with a classified parsing_error whose
\* payload holds both the original text and the repaired text.
C3_ParsingErrorCarriesBothTexts ==
    BothParsesFailed =>
        /\ raised.classified
        /\ raised.payload.type = "parsing_error"
        /\ raised.payload.assistant_message_str = assistant_message_str
        /\ \/ IsSubstring(repaired_str, raised.payload.assistant_message_str)
           \/ IsSubstring(repaired_str, raised.payload.original_error)

ErrorTypes == {"overloaded", "rate_limit", "context_length", "auth",
               "service_unavailable", "unknown"}

\* generate_text failed and the except block has run
ProviderFailed == pc = "raised" /\ loads_calls = 0

\* provider is the part of name before its first "/", or unknown without one
IsProviderOf(provider, name) ==
    \/ /\ \A k \in 1..Len(name) : name[k] # "/"
       /\ provider = <<"unknown">>
    \/ \E k \in 1..Len(name) :
          /\ name[k] = "/"
          /\ \A j \in 1..(k - 1) : name[j] # "/"
          /\ provider = [j \in 1..(k - 1) |-> name[j]]

IsProviderError(e) ==
    /\ e.classified
    /\ e.payload.type = "model_provider_error"
    /\ e.payload.error_type \in ErrorTypes
    /\ IsProviderOf(e.payload.provider, model_name)

MentionsLiteLLM(text) == \E i \in 1..Len(text) : text[i] \in {"litellm", "LiteLLM"}

Polled == polls >= 1
IsPending(response) == response.status \notin {"completed", "failed"}
TimedOut == raised # None /\ raised.exc = "TimeoutError"

C7_FailedIsDistinguishable ==
    (Polled /\ status_response.status = "failed" /\ pc = "returned")
        => /\ Len(sleeps) = polls - 1
           /\ \E i \in 1..Len(returned.crawl_result) :
                 returned.crawl_result[i] = ReasonOf(status_response)
           /\ returned # ExceptOutput(CrawlTimeout)
           /\ \A r \in StatusResponses :
                 r.status = "completed" => returned # CompletedOutput(r)

\* C9: a run that times out sleeps only between polls: 29 waits for 30 polls,
\* none after the last poll.
C9_NoWaitAfterLastPoll ==
    /\ pc = "sleep" => polls < 30
    /\ TimedOut => Len(sleeps) = 29

(***************************************************************************)
(* Properties of repair_json (SpecRepair)                                  *)
(***************************************************************************)
\* C8: repair_json(repair_json(s)) = repair_json(s)
C8_RepairIdempotent ==
    pc = "repair_done" => repaired2 = repaired1

\* s with every single quote outside its well-formed double-quoted literals
\* turned into a double quote, the literals left as they are
RECURSIVE QuoteFixed(_, _, _)
QuoteFixed(s, i, out) ==
    IF i > Len(s) THEN out
    ELSE LET e == IF s[i] = DQ THEN QuotedEnd(s, i + 1) ELSE 0
         IN IF e # 0 THEN QuoteFixed(s, e + 1, out \o SubSeq(s, i, e))
            ELSE QuoteFixed(s, i + 1, Append(out, IF s[i] = SQ THEN DQ ELSE s[i]))

\* C10: for a non-blank input the text after the placeholders are restored is the
\* input with the single quotes outside literals replaced and every literal back
\* in its place unchanged.
C10_LiteralsRestored ==
    (pc # "repair_once" /\ ~IsBlank(broken_json_str))
        => restored = QuoteFixed(broken_json_str, 1, <<>>)

====
